---- MODULE Spec2Model ----
(***************************************************************************)
(* Model of src/src/components/ScheduleApp.jsx: the ScheduleApp component  *)
(* (session list, search index, debounced filter pipeline, refresh diff,   *)
(* bookmarks, grouping by day).                                            *)
(*                                                                         *)
(* Conventions.  A JavaScript string is a sequence of one-character       *)
(* strings; the value `undefined` is the one-element sequence Undefined.  *)
(* An object is a record with a field `keys`, the insertion order of the  *)
(* keys the object really has; a field outside `keys` is absent.  One     *)
(* action is one event-loop task: an event handler (or a continuation of  *)
(* fetchData, or a timer callback) together with the render it causes and  *)
(* the effects of that render.  Arrays are compared by content, except    *)
(* where React compares them by identity: every setter call with a fresh  *)
(* array counts as a change.                                               *)
(*                                                                         *)
(* Spec lets every event happen.  SpecFetch, SpecFilter and SpecView are   *)
(* the same program with a user who only refreshes, only filters, or only  *)
(* bookmarks, switches the view and clicks cards.  SpecSearch has a user  *)
(* who searches and refreshes, SpecStorage one who bookmarks on any        *)
(* localStorage, and SpecSettle is SpecSearch with input that stops and    *)
(* with fairness for the clock and for due timers.                         *)
(***************************************************************************)
EXTENDS Integers, Sequences, FiniteSets, TLC

\* --------------------------------------------------------------------------
\* Bounds of the model
\* --------------------------------------------------------------------------
MaxTime == 250
TickStep == 50

\* --------------------------------------------------------------------------
\* Program constants
\* --------------------------------------------------------------------------
DebounceDelay == 100
DayLen == 1000
Undefined == <<"undefined">>
All == <<"a", "l", "l">>
EmptyString == <<>>
Space == " "
NoStats == [added |-> 0, modified |-> 0, unchanged |-> 0]

Range(s) == {s[i] : i \in DOMAIN s}

\* --------------------------------------------------------------------------
\* String primitives
\* --------------------------------------------------------------------------
LowerChar(c) ==
  CASE c = "A" -> "a"
    [] c = "B" -> "b"
    [] c = "C" -> "c"
    [] c = "D" -> "d"
    [] c = "R" -> "r"
    [] OTHER -> c

toLowerCase(s) == [i \in 1..Len(s) |-> LowerChar(s[i])]

includes(text, sub) ==
  \E i \in 0..(Len(text) - Len(sub)) : SubSeq(text, i + 1, i + Len(sub)) = sub

RECURSIVE join(_, _)
join(parts, sep) ==
  IF Len(parts) = 0 THEN <<>>
  ELSE IF Len(parts) = 1 THEN parts[1]
  ELSE parts[1] \o <<sep>> \o join(Tail(parts), sep)

\* --------------------------------------------------------------------------
\* Session objects
\* --------------------------------------------------------------------------
Has(o, k) == k \in Range(o.keys)
Get(o, k) == IF Has(o, k) THEN o[k] ELSE Undefined
RoomName(s) == IF Has(s, "slot_room") THEN s.slot_room.name ELSE Undefined
Truthy(v) == v # Undefined /\ v # EmptyString

\* JSON.stringify: the members of the object, in key insertion order
Stringify(o) == [i \in 1..Len(o.keys) |-> <<o.keys[i], o[o.keys[i]]>>]

\* the fields and values of an object, whatever the order of its keys
Content(o) == [k \in Range(o.keys) |-> o[k]]

DayNames == <<"Thursday", "Friday", "Saturday", "Sunday", "Monday", "Tuesday", "Wednesday">>
DayLabel(t) == <<DayNames[((t \div DayLen) % 7) + 1], ToString(t \div DayLen)>>

\* --------------------------------------------------------------------------
\* Responses of the sessions API (the inputs of the model)
\* --------------------------------------------------------------------------
StdKeys == <<"id", "title", "description", "track", "slot_start", "slot_end", "slot_room", "speakers">>
NoTrackKeys == <<"id", "title", "description", "slot_start", "slot_end">>
AltKeys == <<"title", "id", "description", "track", "slot_start", "slot_end", "slot_room", "speakers">>

SessA == [keys |-> StdKeys, id |-> 1, title |-> <<"A">>, description |-> <<"x">>,
          track |-> <<"C">>, slot_start |-> 50, slot_end |-> 150,
          slot_room |-> [name |-> <<"R">>],
          speakers |-> <<[id |-> 7, name |-> <<"B">>]>>]
\* session 1 with the same members in another key order
SessAk == [SessA EXCEPT !.keys = AltKeys]
\* session 2 has no track, no room and no speakers; it starts when session 1 starts
SessB == [keys |-> NoTrackKeys, id |-> 2, title |-> <<"b">>, description |-> <<"x">>,
          track |-> EmptyString, slot_start |-> 50, slot_end |-> 100,
          slot_room |-> [name |-> EmptyString], speakers |-> <<>>]
\* session 2 with another description, moved before session 1
SessB2 == [SessB EXCEPT !.description = <<"y">>, !.slot_start = 20, !.slot_end = 40]
\* session 3 is on the next day
SessC == [keys |-> StdKeys, id |-> 3, title |-> <<"c">>, description |-> <<"A">>,
          track |-> <<"D">>, slot_start |-> 1020, slot_end |-> 1040,
          slot_room |-> [name |-> <<"R">>], speakers |-> <<>>]

Payloads == { <<>>, <<SessA, SessB>>, <<SessAk, SessB2, SessC>> }

\* what the user may type into the search box
SearchTerms == { EmptyString, <<"A">> }

\* --------------------------------------------------------------------------
\* createSearchIndex
\* --------------------------------------------------------------------------
SpeakerNames(s) ==
  LET sp == IF Has(s, "speakers") THEN s.speakers ELSE <<>>
  IN  [i \in 1..Len(sp) |-> toLowerCase(sp[i].name)]

\* a search text that reads the track without the guard for a missing one
SearchTextNoGuard(s) ==
  toLowerCase(s.title) \o <<Space>> \o
  toLowerCase(s.description) \o <<Space>> \o
  toLowerCase(Get(s, "track")) \o <<Space>> \o
  join(SpeakerNames(s), Space)
SearchText(s) ==
  toLowerCase(s.title) \o <<Space>> \o
  toLowerCase(s.description) \o <<Space>> \o
  toLowerCase(IF Truthy(Get(s, "track")) THEN s.track ELSE EmptyString) \o <<Space>> \o
  join(SpeakerNames(s), Space)

IndexedSession(s) ==
  [k \in (DOMAIN s) \cup {"searchText"} |->
     IF k = "searchText" THEN SearchText(s)
     ELSE IF k = "keys" THEN Append(s.keys, "searchText")
     ELSE s[k]]

createSearchIndex(list) == [i \in 1..Len(list) |-> IndexedSession(list[i])]

\* --------------------------------------------------------------------------
\* The diff of fetchData
\* --------------------------------------------------------------------------
\* Array.prototype.find: the first element with the id, or Undefined
Find(list, id) ==
  IF \E i \in 1..Len(list) : list[i].id = id
  THEN list[CHOOSE i \in 1..Len(list) :
              list[i].id = id /\ \A j \in 1..(i - 1) : list[j].id # id]
  ELSE Undefined

Classify(old, session) ==
  IF \A i \in 1..Len(old) : old[i].id # session.id THEN "added"
  ELSE IF Stringify(Find(old, session.id)) # Stringify(session) THEN "modified"
  ELSE "unchanged"

RECURSIVE DiffStats(_, _, _)
DiffStats(old, new, stats) ==
  IF new = <<>> THEN stats
  ELSE LET c == Classify(old, Head(new))
       IN  DiffStats(old, Tail(new), [stats EXCEPT ![c] = @ + 1])

\* --------------------------------------------------------------------------
\* filterSessions: fn is the closure of one render
\* --------------------------------------------------------------------------
SearchStage(list, term) ==
  IF term # EmptyString
  THEN SelectSeq(list, LAMBDA s : includes(s.searchText, toLowerCase(term)))
  ELSE list

DayStage(list, day) ==
  IF day # All
  THEN SelectSeq(list, LAMBDA s : DayLabel(s.slot_start) = day)
  ELSE list

TrackStage(list, track) ==
  IF track # All
  THEN SelectSeq(list, LAMBDA s : Get(s, "track") = track)
  ELSE list

\* a room stage that lets every session pass
RoomStageOff(list, room) == list
RoomStage(list, room) ==
  IF room # All
  THEN SelectSeq(list, LAMBDA s : RoomName(s) = room)
  ELSE list

filterSessions(fn) ==
  RoomStage(TrackStage(DayStage(SearchStage(fn.searchIndex, fn.searchTerm),
                                fn.selectedDay), fn.selectedTrack), fn.selectedRoom)

\* the closure leaves the index untouched: the result is the index array itself
NoFilterActive(fn) ==
  /\ fn.searchTerm = EmptyString
  /\ fn.selectedDay = All
  /\ fn.selectedTrack = All
  /\ fn.selectedRoom = All

\* --------------------------------------------------------------------------
\* groupedSessions
\* --------------------------------------------------------------------------
bookmarkIncludes(bm, id) == \E i \in 1..Len(bm) : bm[i] = id

\* a source that takes the bookmarked sessions from the filtered list
sessionsToGroupFiltered(v, filtered, held, bm) ==
  IF v = "schedule" THEN filtered
  ELSE SelectSeq(filtered, LAMBDA s : bookmarkIncludes(bm, s.id))

sessionsToGroup(v, filtered, held, bm) ==
  IF v = "schedule" THEN filtered
  ELSE SelectSeq(held, LAMBDA s : bookmarkIncludes(bm, s.id))

\* a live test that excludes the first and the last instant of a session
isCurrentSessionStrict(s, t) == s.slot_start < t /\ s.slot_end > t
isCurrentSession(s, t) == s.slot_start <= t /\ s.slot_end >= t

\* an insertion that moves a session before the sessions with an equal start
RECURSIVE InsertByStartUnstable(_, _)
InsertByStartUnstable(sorted, s) ==
  IF sorted = <<>> THEN <<s>>
  ELSE IF sorted[Len(sorted)].slot_start - s.slot_start >= 0
       THEN Append(InsertByStartUnstable(SubSeq(sorted, 1, Len(sorted) - 1), s),
                   sorted[Len(sorted)])
       ELSE Append(sorted, s)

\* Array.prototype.sort with (a, b) => a.slot_start - b.slot_start: a stable sort
RECURSIVE InsertByStart(_, _)
InsertByStart(sorted, s) ==
  IF sorted = <<>> THEN <<s>>
  ELSE IF sorted[Len(sorted)].slot_start - s.slot_start > 0
       THEN Append(InsertByStart(SubSeq(sorted, 1, Len(sorted) - 1), s), sorted[Len(sorted)])
       ELSE Append(sorted, s)

RECURSIVE SortByStart(_)
SortByStart(list) ==
  IF list = <<>> THEN <<>>
  ELSE InsertByStart(SortByStart(SubSeq(list, 1, Len(list) - 1)), list[Len(list)])

DayBucket(src, day) == SelectSeq(src, LAMBDA s : DayLabel(s.slot_start) = day)

GroupSessions(src, t) ==
  [grouped |-> [d \in {DayLabel(src[i].slot_start) : i \in 1..Len(src)} |->
                  SortByStart(DayBucket(src, d))],
   hasCurrentSession |-> \E i \in 1..Len(src) : isCurrentSession(src[i], t),
   currentTime |-> t]

\* the options of the three select boxes
tracks(held) == {held[i].track : i \in {j \in 1..Len(held) : Truthy(Get(held[j], "track"))}}
rooms(held) == {RoomName(held[i]) : i \in {j \in 1..Len(held) : Truthy(RoomName(held[j]))}}
days(held) == {DayLabel(held[i].slot_start) : i \in 1..Len(held)}

\* --------------------------------------------------------------------------
\* localStorage and the bookmark item
\* --------------------------------------------------------------------------
\* the item 'devcon-bookmarked-sessions': absent (getItem returns null), a text
\* that JSON.parse rejects, or the JSON text of an array of ids
NoItem == [kind |-> "null", items |-> <<>>]
GarbageItem == [kind |-> "garbage", items |-> <<2>>]
JsonItem(ids) == [kind |-> "json", items |-> ids]

\* the storage a browser can start with: the item, and whether getItem and
\* setItem throw (storage disabled, quota exceeded)
Storages ==
  [item : {NoItem, GarbageItem, JsonItem(<<>>), JsonItem(<<2>>), JsonItem(<<3, 1>>)},
   fails : BOOLEAN]
FreshStorage == [item |-> NoItem, fails |-> FALSE]

\* what the initial read met
StartupRead(ls) == IF ls.fails THEN "threw" ELSE ls.item.kind

\* an initial state that takes the ids of the item without parsing it
InitialBookmarksUnparsed(ls) == ls.item.items
\* the initial state of bookmarkedSessions: try getItem and JSON.parse, [] on a
\* null item and in the catch
InitialBookmarks(ls) ==
  IF ls.fails THEN <<>>
  ELSE IF ls.item.kind = "null" THEN <<>>
  ELSE IF ls.item.kind = "garbage" THEN <<>>
  ELSE ls.item.items

\* the save effect: try setItem(JSON.stringify(bookmarkedSessions)), the catch logs
SaveBookmarks(st, bm) ==
  IF st.fails THEN st ELSE [st EXCEPT !.item = JsonItem(bm)]

\* --------------------------------------------------------------------------
\* State
\* --------------------------------------------------------------------------
VARIABLES
  sessions,            \* useState: the held session list
  isLoading,           \* useState
  isRefreshing,        \* useState
  filteredSessions,    \* useState: what schedule mode groups
  searchIndex,         \* useState
  bookmarkedSessions,  \* useState: array of session ids
  searchTerm,          \* useState
  selectedDay,         \* useState
  selectedTrack,       \* useState
  selectedRoom,        \* useState
  view,                \* useState: "schedule" or "bookmarks"
  searchTimeout,       \* useRef: id of the last timer set, 0 for null
  isUpdateDialogOpen,  \* useState
  updateStats,         \* useState
  groupedSessions,     \* useMemo: the cached grouping
  filteredIsIndex,     \* filteredSessions and searchIndex are the same array
  fetches,             \* calls of fetchData suspended at their await
  timers,              \* the timers of the browser that are set and not fired
  storage,             \* localStorage: the bookmark item, whether its calls throw,
                       \* and what the initial read met
  now,                 \* the clock of the browser
  lastOp               \* the task that ran last

vars == <<sessions, isLoading, isRefreshing, filteredSessions, searchIndex,
          bookmarkedSessions, searchTerm, selectedDay, selectedTrack, selectedRoom,
          view, searchTimeout, isUpdateDialogOpen, updateStats, groupedSessions,
          filteredIsIndex, fetches, timers, storage, now, lastOp>>

\* --------------------------------------------------------------------------
\* Timers and the debounce effect
\* --------------------------------------------------------------------------
TimerIds(tms) == {t.id : t \in tms}

\* setTimeout returns an id that names no other timer
FreshId(tms, ref) ==
  CHOOSE n \in 1..(Cardinality(tms) + 2) :
    /\ n \notin TimerIds(tms) \cup {ref}
    /\ \A m \in 1..(n - 1) : m \in TimerIds(tms) \cup {ref}

\* a clearTimeout that cancels nothing
clearTimeoutNoop(tms, id) == tms
clearTimeout(tms, id) == {t \in tms : t.id # id}

setTimeout(tms, ref, fn, delay, t) ==
  tms \cup {[id |-> FreshId(tms, ref), fn |-> fn, due |-> t + delay]}

\* the closure filterSessions of a render
FilterClosure(idx, term, day, track, room) ==
  [searchIndex |-> idx, searchTerm |-> term, selectedDay |-> day,
   selectedTrack |-> track, selectedRoom |-> room]

\* an effect that cancels the pending run and sets none
DebounceEffectCancelOnly(tms, ref, fn, t) ==
  [timers |-> clearTimeout(tms, ref), searchTimeout |-> ref]

\* cleanup of the previous run of the effect, then the effect
DebounceEffect(tms, ref, fn, t) ==
  LET cleaned == clearTimeout(tms, ref)
      cleared == IF ref # 0 THEN clearTimeout(cleaned, ref) ELSE cleaned
  IN  [timers |-> setTimeout(cleared, ref, fn, DebounceDelay, t),
       searchTimeout |-> FreshId(cleared, ref)]

\* The render after a task and its effects.  sessionsReplaced: setSessions got a
\* new array; filteredReplaced: setFilteredSessions got a new array; tms: the
\* timers left by the task.
Commit(sessionsReplaced, filteredReplaced, tms) ==
  /\ searchIndex' = IF sessionsReplaced THEN createSearchIndex(sessions') ELSE searchIndex
  /\ LET fn == FilterClosure(searchIndex', searchTerm', selectedDay', selectedTrack',
                             selectedRoom')
         changed == \/ sessionsReplaced
                    \/ searchTerm' # searchTerm
                    \/ selectedDay' # selectedDay
                    \/ selectedTrack' # selectedTrack
                    \/ selectedRoom' # selectedRoom
         eff == DebounceEffect(tms, searchTimeout, fn, now)
     IN  /\ timers' = IF changed THEN eff.timers ELSE tms
         /\ searchTimeout' = IF changed THEN eff.searchTimeout ELSE searchTimeout
  /\ groupedSessions' =
       IF \/ sessionsReplaced
          \/ filteredReplaced
          \/ bookmarkedSessions' # bookmarkedSessions
          \/ view' # view
       THEN GroupSessions(sessionsToGroup(view', filteredSessions', sessions',
                                          bookmarkedSessions'), now)
       ELSE groupedSessions
  /\ storage' = IF bookmarkedSessions' # bookmarkedSessions
                THEN SaveBookmarks(storage, bookmarkedSessions')
                ELSE storage

\* --------------------------------------------------------------------------
\* Init: the component is mounted and its mount effects have run
\* --------------------------------------------------------------------------
Mounted(ls) ==
  /\ sessions = <<>>
  /\ isLoading = TRUE
  /\ isRefreshing = FALSE
  /\ filteredSessions = <<>>
  /\ searchIndex = createSearchIndex(<<>>)
  /\ bookmarkedSessions = InitialBookmarks(ls)
  /\ LET saved == SaveBookmarks(ls, InitialBookmarks(ls))
     IN  storage = [item |-> saved.item, fails |-> saved.fails, startup |-> StartupRead(ls)]
  /\ searchTerm = EmptyString
  /\ selectedDay = All
  /\ selectedTrack = All
  /\ selectedRoom = All
  /\ view = "schedule"
  /\ isUpdateDialogOpen = FALSE
  /\ updateStats = NoStats
  /\ now = 0
  /\ LET fn == FilterClosure(<<>>, EmptyString, All, All, All)
         first == DebounceEffect({}, 0, fn, 0)
         second == DebounceEffect(first.timers, first.searchTimeout, fn, 0)
     IN  /\ timers = second.timers
         /\ searchTimeout = second.searchTimeout
  /\ groupedSessions = GroupSessions(<<>>, 0)
  /\ filteredIsIndex = FALSE
  /\ fetches = <<[showRefreshing |-> FALSE, sessions |-> <<>>]>>
  /\ lastOp = "mount"

\* a browser that never stored bookmarks
Init == Mounted(FreshStorage)

\* a browser with any bookmark item, readable or not
InitStorage == \E ls \in Storages : Mounted(ls)

\* --------------------------------------------------------------------------
\* fetchData
\* --------------------------------------------------------------------------
RemoveAt(seq, i) == SubSeq(seq, 1, i - 1) \o SubSeq(seq, i + 1, Len(seq))

\* the Refresh button: fetchData(true) up to its await
Refresh ==
  /\ ~isRefreshing
  /\ isRefreshing' = TRUE
  /\ fetches' = Append(fetches, [showRefreshing |-> TRUE, sessions |-> sessions])
  /\ lastOp' = "refresh"
  /\ UNCHANGED <<sessions, isLoading, filteredSessions, searchIndex, bookmarkedSessions,
                 searchTerm, selectedDay, selectedTrack, selectedRoom, view,
                 searchTimeout, isUpdateDialogOpen, updateStats, groupedSessions,
                 filteredIsIndex, timers, storage, now>>

\* the diff runs when the `sessions` of the closure is not empty
DiffAlways(old) == TRUE
HasPrior(old) == Len(old) > 0

\* a completion that appends the response to the list of its closure
FetchSucceedsMerging(i, newSessions) ==
  /\ i \in DOMAIN fetches
  /\ LET old == fetches[i].sessions
     IN  /\ updateStats' = IF HasPrior(old) THEN DiffStats(old, newSessions, NoStats)
                           ELSE updateStats
         /\ isUpdateDialogOpen' = IF HasPrior(old) THEN TRUE ELSE isUpdateDialogOpen
         /\ sessions' = old \o newSessions
         /\ filteredSessions' = old \o newSessions
  /\ filteredIsIndex' = FALSE
  /\ isLoading' = FALSE
  /\ isRefreshing' = FALSE
  /\ fetches' = RemoveAt(fetches, i)
  /\ lastOp' = "fetchSucceeded"
  /\ UNCHANGED <<bookmarkedSessions, searchTerm, selectedDay, selectedTrack,
                 selectedRoom, view, now>>
  /\ Commit(TRUE, TRUE, timers)

\* the response arrived and parsed: the rest of the try block, then finally.
\* `sessions` in the body of fetchData is the list of the render that made the call.
FetchSucceeds(i, newSessions) ==
  /\ i \in DOMAIN fetches
  /\ LET old == fetches[i].sessions
     IN  /\ updateStats' = IF HasPrior(old) THEN DiffStats(old, newSessions, NoStats)
                           ELSE updateStats
         /\ isUpdateDialogOpen' = IF HasPrior(old) THEN TRUE ELSE isUpdateDialogOpen
  /\ sessions' = newSessions
  /\ filteredSessions' = newSessions
  /\ filteredIsIndex' = FALSE
  /\ isLoading' = FALSE
  /\ isRefreshing' = FALSE
  /\ fetches' = RemoveAt(fetches, i)
  /\ lastOp' = "fetchSucceeded"
  /\ UNCHANGED <<bookmarkedSessions, searchTerm, selectedDay, selectedTrack,
                 selectedRoom, view, now>>
  /\ Commit(TRUE, TRUE, timers)

\* a failing fetch that leaves the refresh spinner on
FetchFailsNoReset(i) ==
  /\ i \in DOMAIN fetches
  /\ isLoading' = FALSE
  /\ isRefreshing' = isRefreshing
  /\ fetches' = RemoveAt(fetches, i)
  /\ lastOp' = "fetchFailed"
  /\ UNCHANGED <<sessions, filteredSessions, filteredIsIndex, bookmarkedSessions,
                 searchTerm, selectedDay, selectedTrack, selectedRoom, view,
                 isUpdateDialogOpen, updateStats, now>>
  /\ Commit(FALSE, FALSE, timers)

\* fetch rejected, response.json() threw or data.data could not be read: catch,
\* then finally
FetchFails(i) ==
  /\ i \in DOMAIN fetches
  /\ isLoading' = FALSE
  /\ isRefreshing' = FALSE
  /\ fetches' = RemoveAt(fetches, i)
  /\ lastOp' = "fetchFailed"
  /\ UNCHANGED <<sessions, filteredSessions, filteredIsIndex, bookmarkedSessions,
                 searchTerm, selectedDay, selectedTrack, selectedRoom, view,
                 isUpdateDialogOpen, updateStats, now>>
  /\ Commit(FALSE, FALSE, timers)

\* --------------------------------------------------------------------------
\* The debounced filter run
\* --------------------------------------------------------------------------
\* the timer callback: the filterSessions closure the timer was set with
TimerFires(t) ==
  /\ t \in timers
  /\ now >= t.due
  /\ LET same == NoFilterActive(t.fn) /\ filteredIsIndex
     IN  /\ filteredSessions' = IF same THEN filteredSessions ELSE filterSessions(t.fn)
         /\ filteredIsIndex' = NoFilterActive(t.fn)
         /\ lastOp' = "filterRun"
         /\ UNCHANGED <<sessions, isLoading, isRefreshing, bookmarkedSessions, searchTerm,
                        selectedDay, selectedTrack, selectedRoom, view,
                        isUpdateDialogOpen, updateStats, fetches, now>>
         /\ Commit(FALSE, ~same, timers \ {t})

Tick ==
  /\ now + TickStep <= MaxTime
  /\ now' = now + TickStep
  /\ UNCHANGED <<sessions, isLoading, isRefreshing, filteredSessions, searchIndex,
                 bookmarkedSessions, searchTerm, selectedDay, selectedTrack,
                 selectedRoom, view, searchTimeout, isUpdateDialogOpen, updateStats,
                 groupedSessions, filteredIsIndex, fetches, timers, storage, lastOp>>

\* --------------------------------------------------------------------------
\* User input
\* --------------------------------------------------------------------------
FiltersShown == ~isLoading /\ view = "schedule"

\* the sessions that have a card on the page
Displayed ==
  IF isLoading THEN {}
  ELSE UNION {Range(groupedSessions.grouped[d]) : d \in DOMAIN groupedSessions.grouped}

\* the showTimeline prop of the cards
showTimeline == view = "bookmarks"

\* the instants a card on the page can have read as `new Date()` in its last render
RenderInstants == {t \in 0..now : t % TickStep = 0}

\* the card of s, rendered at t, holds the element with id NOW_MARKER_ID
NowMarker(s, t) == showTimeline /\ isCurrentSession(s, t)

\* a change of the filter state that leaves sessions, bookmarks and view alone
FilterChange(op) ==
  /\ lastOp' = op
  /\ UNCHANGED <<sessions, isLoading, isRefreshing, filteredSessions, filteredIsIndex,
                 bookmarkedSessions, isUpdateDialogOpen, updateStats, fetches, now>>
  /\ Commit(FALSE, FALSE, timers)

SetSearchTerm(term) ==
  /\ FiltersShown
  /\ term # searchTerm
  /\ searchTerm' = term
  /\ UNCHANGED <<selectedDay, selectedTrack, selectedRoom, view>>
  /\ FilterChange("setSearchTerm")

SelectDay(day) ==
  /\ FiltersShown
  /\ day \in {All} \cup days(sessions)
  /\ day # selectedDay
  /\ selectedDay' = day
  /\ UNCHANGED <<searchTerm, selectedTrack, selectedRoom, view>>
  /\ FilterChange("selectDay")

SelectTrack(track) ==
  /\ FiltersShown
  /\ track \in {All} \cup tracks(sessions)
  /\ track # selectedTrack
  /\ selectedTrack' = track
  /\ UNCHANGED <<searchTerm, selectedDay, selectedRoom, view>>
  /\ FilterChange("selectTrack")

SelectRoom(room) ==
  /\ FiltersShown
  /\ room \in {All} \cup rooms(sessions)
  /\ room # selectedRoom
  /\ selectedRoom' = room
  /\ UNCHANGED <<searchTerm, selectedDay, selectedTrack, view>>
  /\ FilterChange("selectRoom")

FilterActive ==
  \/ searchTerm # EmptyString
  \/ selectedDay # All
  \/ selectedTrack # All
  \/ selectedRoom # All

resetFilters ==
  /\ FiltersShown
  /\ FilterActive
  /\ searchTerm' = EmptyString
  /\ selectedDay' = All
  /\ selectedTrack' = All
  /\ selectedRoom' = All
  /\ UNCHANGED view
  /\ FilterChange("resetFilters")

\* the room button of a card
handleRoomClick(s) ==
  /\ s \in Displayed
  /\ selectedRoom' = RoomName(s)
  /\ view' = "schedule"
  /\ UNCHANGED <<searchTerm, selectedDay, selectedTrack>>
  /\ FilterChange("handleRoomClick")

\* the track button of a card, rendered when the session has a track
handleTrackClick(s) ==
  /\ s \in Displayed
  /\ Truthy(Get(s, "track"))
  /\ selectedTrack' = s.track
  /\ view' = "schedule"
  /\ UNCHANGED <<searchTerm, selectedDay, selectedRoom>>
  /\ FilterChange("handleTrackClick")

setView(v) ==
  /\ v # view
  /\ view' = v
  /\ UNCHANGED <<searchTerm, selectedDay, selectedTrack, selectedRoom>>
  /\ FilterChange("setView")

\* an updater that never removes
toggleBookmarkAppend(prev, sessionId) == Append(prev, sessionId)

\* the updater of toggleBookmark
toggleBookmark(prev, sessionId) ==
  IF bookmarkIncludes(prev, sessionId)
  THEN SelectSeq(prev, LAMBDA id : id # sessionId)
  ELSE Append(prev, sessionId)

ToggleBookmark(s) ==
  /\ s \in Displayed
  /\ bookmarkedSessions' = toggleBookmark(bookmarkedSessions, s.id)
  /\ lastOp' = "toggleBookmark"
  /\ UNCHANGED <<sessions, isLoading, isRefreshing, filteredSessions, filteredIsIndex,
                 searchTerm, selectedDay, selectedTrack, selectedRoom, view,
                 isUpdateDialogOpen, updateStats, fetches, now>>
  /\ Commit(FALSE, FALSE, timers)

\* the Okay button of the update dialog
CloseDialog ==
  /\ isUpdateDialogOpen
  /\ isUpdateDialogOpen' = FALSE
  /\ lastOp' = "closeDialog"
  /\ UNCHANGED <<sessions, isLoading, isRefreshing, filteredSessions, searchIndex,
                 bookmarkedSessions, searchTerm, selectedDay, selectedTrack,
                 selectedRoom, view, searchTimeout, updateStats, groupedSessions,
                 filteredIsIndex, fetches, timers, storage, now>>

\* the environment: localStorage starts or stops throwing
StorageFlips ==
  /\ storage' = [storage EXCEPT !.fails = ~storage.fails]
  /\ lastOp' = "storage"
  /\ UNCHANGED <<sessions, isLoading, isRefreshing, filteredSessions, searchIndex,
                 bookmarkedSessions, searchTerm, selectedDay, selectedTrack,
                 selectedRoom, view, searchTimeout, isUpdateDialogOpen, updateStats,
                 groupedSessions, filteredIsIndex, fetches, timers, now>>

\* every session object the responses can hold, with and without searchText
AllSessions ==
  LET raw == UNION {Range(p) : p \in Payloads}
  IN  raw \cup {IndexedSession(s) : s \in raw}

\* the events, by origin
FetchEvents ==
  \/ \E i \in 1..2, p \in Payloads : FetchSucceeds(i, p)
  \/ \E i \in 1..2 : FetchFails(i)

TimeEvents ==
  \/ \E t \in timers : TimerFires(t)
  \/ Tick

FilterEvents ==
  \/ \E term \in SearchTerms : SetSearchTerm(term)
  \/ \E day \in days(sessions) \cup {All} : SelectDay(day)
  \/ \E track \in tracks(sessions) \cup {All} : SelectTrack(track)
  \/ \E room \in rooms(sessions) \cup {All} : SelectRoom(room)
  \/ resetFilters

CardEvents ==
  \/ \E s \in AllSessions : handleRoomClick(s)
  \/ \E s \in AllSessions : handleTrackClick(s)
  \/ \E s \in AllSessions : ToggleBookmark(s)
  \/ \E v \in {"schedule", "bookmarks"} : setView(v)

Next ==
  \/ Refresh
  \/ CloseDialog
  \/ FetchEvents
  \/ TimeEvents
  \/ FilterEvents
  \/ CardEvents
  \/ StorageFlips

Spec == Init /\ [][Next]_vars

\* the user refreshes, and touches nothing else
NextFetch ==
  \/ Refresh
  \/ CloseDialog
  \/ FetchEvents
  \/ TimeEvents

SpecFetch == Init /\ [][NextFetch]_vars

\* the user filters the first response
NextFilter ==
  \/ FetchEvents
  \/ TimeEvents
  \/ FilterEvents

SpecFilter == Init /\ [][NextFilter]_vars

\* the user bookmarks, switches the view and clicks cards of the first response
NextView ==
  \/ FetchEvents
  \/ TimeEvents
  \/ CardEvents

SpecView == Init /\ [][NextView]_vars

\* the user searches and refreshes
NextSearch ==
  \/ Refresh
  \/ FetchEvents
  \/ TimeEvents
  \/ \E term \in SearchTerms : SetSearchTerm(term)

SpecSearch == Init /\ [][NextSearch]_vars

\* input comes early enough for its debounce window to end before the clock stops
InputsOpen == now + DebounceDelay + TickStep <= MaxTime

\* the user searches and refreshes for a while; the clock advances and a due
\* timer runs
NextSettle ==
  \/ InputsOpen /\ Refresh
  \/ InputsOpen /\ FetchEvents
  \/ InputsOpen /\ \E term \in SearchTerms : SetSearchTerm(term)
  \/ TimeEvents

SpecSettle ==
  /\ Init
  /\ [][NextSettle]_vars
  /\ WF_vars(Tick)
  /\ WF_vars(\E t \in timers : TimerFires(t))

\* the user bookmarks sessions of the first response on any localStorage
NextStorage ==
  \/ FetchEvents
  \/ \E s \in AllSessions : ToggleBookmark(s)
  \/ StorageFlips

SpecStorage == InitStorage /\ [][NextStorage]_vars

\* ==========================================================================
\* Properties of the refresh (SpecFetch)
\* ==========================================================================
Ids(list) == {list[i].id : i \in 1..Len(list)}
CountIf(list, P(_)) == Cardinality({i \in 1..Len(list) : P(list[i])})
FetchIndex == 1..2

\* C1: whenever a successful fetch runs the diff, the old list of the diff is the
\* list the store holds immediately before that fetch installs its payload.
C1_DiffAgainstHeldList ==
  [][lastOp' = "fetchSucceeded" =>
       \A i \in FetchIndex :
         (FetchSucceeds(i, sessions') /\ Len(fetches[i].sessions) > 0)
           => fetches[i].sessions = sessions]_vars

\* C3: a failed fetch leaves the held list, the filtered list, the update stats and
\* the update dialog as they were, and after it both loading flags are false.
C3_FailedFetchInstallsNothing ==
  [][(lastOp' = "fetchFailed" /\ Len(fetches') < Len(fetches))
       => /\ sessions' = sessions
          /\ filteredSessions' = filteredSessions
          /\ updateStats' = updateStats
          /\ isUpdateDialogOpen' = isUpdateDialogOpen
          /\ ~isLoading'
          /\ ~isRefreshing']_vars

\* a refresh failed while a list, its filtered list and an open dialog were there
C3_Witness ==
  /\ lastOp = "fetchFailed"
  /\ sessions # <<>>
  /\ filteredSessions = searchIndex
  /\ isUpdateDialogOpen
  /\ ~isLoading
  /\ ~isRefreshing

\* C4: the diff counts every new session in exactly one class: added when no old
\* session has its id, modified when the old session with its id has other
\* content, unchanged otherwise.
C4_DiffPartition ==
  [][lastOp' = "fetchSucceeded" =>
     \A i \in FetchIndex, p \in {sessions'} :
       (FetchSucceeds(i, p) /\ Len(fetches[i].sessions) > 0)
         => LET old == fetches[i].sessions
                Added(s) == s.id \notin Ids(old)
                Modified(s) == /\ s.id \in Ids(old)
                               /\ \E j \in 1..Len(old) :
                                    /\ old[j].id = s.id
                                    /\ \A k \in 1..(j - 1) : old[k].id # s.id
                                    /\ Content(old[j]) # Content(s)
                Unchanged(s) == ~Added(s) /\ ~Modified(s)
            IN  /\ updateStats'.added = CountIf(p, Added)
                /\ updateStats'.modified = CountIf(p, Modified)
                /\ updateStats'.unchanged = CountIf(p, Unchanged)
                /\ updateStats'.added + updateStats'.modified + updateStats'.unchanged = Len(p)
                /\ (Ids(old) \cap Ids(p) = {}) =>
                      updateStats' = [added |-> Len(p), modified |-> 0, unchanged |-> 0]
                /\ (old = p) =>
                      updateStats' = [added |-> 0, modified |-> 0, unchanged |-> Len(p)]]_vars

\* C5: a fetch that completes with an empty old list classifies nothing: the update
\* stats keep their value and the dialog stays as it is; the dialog is opened only by
\* a successful fetch with a non-empty old list.
C5_FirstLoadSuppressed ==
  [][/\ lastOp' = "fetchSucceeded" =>
          \A i \in FetchIndex :
            (FetchSucceeds(i, sessions') /\ Len(fetches[i].sessions) = 0)
              => /\ updateStats' = updateStats
                 /\ isUpdateDialogOpen' = isUpdateDialogOpen
     /\ (isUpdateDialogOpen' /\ ~isUpdateDialogOpen)
          => \E i \in FetchIndex :
               FetchSucceeds(i, sessions') /\ Len(fetches[i].sessions) > 0]_vars

\* the first load brought sessions and opened no dialog
C5_Witness ==
  /\ lastOp = "fetchSucceeded"
  /\ sessions # <<>>
  /\ ~isUpdateDialogOpen
  /\ updateStats = NoStats

\* ==========================================================================
\* Properties of the filter (SpecFilter)
\* ==========================================================================
CurrentClosure ==
  FilterClosure(searchIndex, searchTerm, selectedDay, selectedTrack, selectedRoom)

FilterInputsChange ==
  \/ searchIndex' # searchIndex
  \/ searchTerm' # searchTerm
  \/ selectedDay' # selectedDay
  \/ selectedTrack' # selectedTrack
  \/ selectedRoom' # selectedRoom

FilterRunStep == lastOp' = "filterRun" /\ timers' # timers

\* C2: at most one filter run is pending; a change of the filter state or of the
\* search index cancels the pending run and sets one that is due a full delay
\* later; the pending run is the one for the current filter state, and when it
\* executes it filters with that state and leaves no run pending.
C2_Debounce ==
  /\ [](/\ Cardinality(timers) <= 1
        /\ \A t \in timers : t.fn = CurrentClosure /\ t.due <= now + DebounceDelay)
  /\ [][/\ FilterInputsChange =>
             /\ timers \cap timers' = {}
             /\ TimerIds(timers) \cap TimerIds(timers') = {}
             /\ \E t \in timers' : timers' = {t} /\ t.due = now + DebounceDelay
        /\ FilterRunStep =>
             /\ \E t \in timers : t.due <= now /\ timers' = timers \ {t}
             /\ timers' = {}
             /\ filteredSessions' = filterSessions(CurrentClosure)]_vars

\* two changes inside one window: one run pending, for the state after the second
C2_Witness ==
  /\ lastOp = "selectDay"
  /\ searchTerm # EmptyString
  /\ selectedDay # All
  /\ 0 < now /\ now < DebounceDelay
  /\ \E t \in timers : timers = {t} /\ t.due = now + DebounceDelay /\ t.fn = CurrentClosure
  /\ filteredSessions = sessions
  /\ sessions # <<>>

DayOk(s) == selectedDay = All \/ DayLabel(s.slot_start) = selectedDay
TrackOk(s) == selectedTrack = All \/ Get(s, "track") = selectedTrack
RoomOk(s) == selectedRoom = All \/ RoomName(s) = selectedRoom

\* C6 as claimed: a run returns the sessions of the index for which the search
\* term is a substring of searchText and day, track and room match, in index order.
C6_FilterResultAsClaimed ==
  [][FilterRunStep =>
       filteredSessions' =
         SelectSeq(searchIndex,
                   LAMBDA s : /\ searchTerm = EmptyString \/ includes(s.searchText, searchTerm)
                              /\ DayOk(s) /\ TrackOk(s) /\ RoomOk(s))]_vars

\* C6: a run returns the sessions of the index for which the lower-cased search
\* term is a substring of searchText and day, track and room match, in index
\* order; with every field at its default it returns the whole index.
C6_FilterResult ==
  [][FilterRunStep =>
       /\ filteredSessions' =
            SelectSeq(searchIndex,
                      LAMBDA s : /\ \/ searchTerm = EmptyString
                                    \/ includes(s.searchText, toLowerCase(searchTerm))
                                 /\ DayOk(s) /\ TrackOk(s) /\ RoomOk(s))
       /\ ~FilterActive => filteredSessions' = searchIndex]_vars

\* a run with a search term and a room kept some sessions and dropped others
C6_Witness ==
  /\ lastOp = "filterRun"
  /\ searchTerm = <<"A">>
  /\ selectedRoom # All
  /\ filteredSessions # <<>>
  /\ Len(filteredSessions) < Len(searchIndex)
  /\ timers = {}

\* ==========================================================================
\* Properties of bookmarks and grouping (SpecView)
\* ==========================================================================
SessionIds == {s.id : s \in AllSessions}
Marked == Range(bookmarkedSessions)

\* C7: toggleBookmark(id) adds id when absent and removes it when present, keeps
\* the membership of every other id, and two calls in a row restore the membership
\* of every id.
C7_ToggleBookmark ==
  /\ [](\A id \in SessionIds :
          Range(toggleBookmark(toggleBookmark(bookmarkedSessions, id), id)) = Marked)
  /\ [][lastOp' = "toggleBookmark" =>
          \A s \in AllSessions :
            ToggleBookmark(s) =>
              /\ (s.id \in Range(bookmarkedSessions')) <=> (s.id \notin Marked)
              /\ \A id \in SessionIds \ {s.id} :
                   (id \in Range(bookmarkedSessions')) <=> (id \in Marked)]_vars

\* one bookmark is left after another one was set and removed again
C7_Witness ==
  /\ lastOp = "toggleBookmark"
  /\ bookmarkedSessions = <<2>>
  /\ view = "bookmarks"
  /\ Len(sessions) = 2

GroupingSource == sessionsToGroup(view, filteredSessions, sessions, bookmarkedSessions)
Count(list, x) == Cardinality({i \in 1..Len(list) : list[i] = x})
StartsOf(list) == {list[i].slot_start : i \in 1..Len(list)}

\* C8: every session of the grouped source is exactly once in the grouping, in the
\* bucket of the day label of its slot_start; each bucket ascends by slot_start and
\* sessions with equal slot_start keep the order of the source.
C8_BucketsSorted ==
  LET src == GroupingSource
      g == groupedSessions.grouped
  IN  /\ \A i \in 1..Len(src) :
           /\ DayLabel(src[i].slot_start) \in DOMAIN g
           /\ \A d \in DOMAIN g :
                Count(g[d], src[i]) = IF d = DayLabel(src[i].slot_start)
                                      THEN Count(src, src[i]) ELSE 0
      /\ \A d \in DOMAIN g :
           /\ \A i \in 1..Len(g[d]) : Count(src, g[d][i]) > 0
           /\ \A i \in 1..(Len(g[d]) - 1) : g[d][i].slot_start <= g[d][i + 1].slot_start
           /\ \A t \in StartsOf(g[d]) :
                SelectSeq(g[d], LAMBDA x : x.slot_start = t)
                  = SelectSeq(src, LAMBDA x : DayLabel(x.slot_start) = d /\ x.slot_start = t)

\* a bucket whose sessions came in another order than the ascending one
C8_Witness ==
  LET src == GroupingSource
      g == groupedSessions.grouped
  IN  /\ \E i \in 1..Len(src), j \in 1..Len(src) :
           /\ i < j
           /\ DayLabel(src[i].slot_start) = DayLabel(src[j].slot_start)
           /\ src[i].slot_start > src[j].slot_start
      /\ \E d \in DOMAIN g : Len(g[d]) = 2 /\ g[d][1].slot_start < g[d][2].slot_start

\* C9: hasCurrentSession is true exactly when a grouped session has
\* slot_start <= t <= slot_end at the time t the grouping was computed; the flag
\* changes only in a task that sets an input of the grouping, and a step of the
\* clock leaves the grouping as it is.
C9_LiveFlag ==
  /\ [](LET src == GroupingSource
            t == groupedSessions.currentTime
        IN  /\ t <= now
            /\ groupedSessions.hasCurrentSession
                 <=> \E i \in 1..Len(src) : src[i].slot_start <= t /\ t <= src[i].slot_end)
  /\ [][/\ groupedSessions'.hasCurrentSession # groupedSessions.hasCurrentSession
             => \/ lastOp' \in {"fetchSucceeded", "filterRun"}
                \/ bookmarkedSessions' # bookmarkedSessions
                \/ view' # view
        /\ now' # now => groupedSessions' = groupedSessions]_vars

\* the flag still says live although every grouped session is over
C9_Witness ==
  LET src == GroupingSource
  IN  /\ groupedSessions.hasCurrentSession
      /\ groupedSessions.currentTime < now
      /\ src # <<>>
      /\ \A i \in 1..Len(src) : src[i].slot_end < now

\* C10: in schedule mode the grouped sessions are the filtered result; in bookmarks
\* mode they are the held sessions with a bookmarked id, in held-list order,
\* whatever the filters are.
C10_GroupingSource ==
  LET expected == IF view = "schedule" THEN filteredSessions
                  ELSE SelectSeq(sessions, LAMBDA s : s.id \in Marked)
      g == groupedSessions.grouped
      OfDay(d) == SelectSeq(expected, LAMBDA x : DayLabel(x.slot_start) = d)
  IN  /\ DOMAIN g = {DayLabel(expected[i].slot_start) : i \in 1..Len(expected)}
      /\ \A d \in DOMAIN g :
           /\ Len(g[d]) = Len(OfDay(d))
           /\ \A x \in Range(g[d]) \cup Range(OfDay(d)) : Count(g[d], x) = Count(OfDay(d), x)
           /\ view = "bookmarks" =>
                \A i \in 1..Len(g[d]), j \in 1..Len(g[d]) :
                  (i < j /\ g[d][i].slot_start = g[d][j].slot_start) =>
                    \E a \in 1..Len(sessions), b \in 1..Len(sessions) :
                      a < b /\ sessions[a] = g[d][i] /\ sessions[b] = g[d][j]

\* bookmarks mode shows a bookmarked session that the active track filter rejects
C10_Witness ==
  /\ view = "bookmarks"
  /\ selectedTrack # All
  /\ \E d \in DOMAIN groupedSessions.grouped :
       \E x \in Range(groupedSessions.grouped[d]) :
         /\ Get(x, "track") # selectedTrack
         /\ x \in Range(sessions)
         /\ x.id \in Marked
  /\ \A i \in 1..Len(filteredSessions) : Get(filteredSessions[i], "track") = selectedTrack

\* ==========================================================================
\* Properties of the diff comparison and of the held list (SpecFetch)
\* ==========================================================================
\* C11: a new session whose id the old list has is counted unchanged exactly when
\* it has the same fields with the same values as the old one, whatever the order
\* its keys arrive in, and modified exactly when a field value differs.
C11_DeepEquality ==
  [][lastOp' = "fetchSucceeded" =>
     \A i \in FetchIndex :
       (FetchSucceeds(i, sessions') /\ Len(fetches[i].sessions) > 0)
         => LET old == fetches[i].sessions
                SameFields(s) == \E j \in 1..Len(old) :
                                   /\ old[j].id = s.id
                                   /\ \A k \in 1..(j - 1) : old[k].id # s.id
                                   /\ Content(old[j]) = Content(s)
                Differs(s) == s.id \in Ids(old) /\ ~SameFields(s)
            IN  /\ updateStats'.unchanged = CountIf(sessions', SameFields)
                /\ updateStats'.modified = CountIf(sessions', Differs)]_vars

\* ==========================================================================
\* Properties of a refresh under an active search (SpecSearch)
\* ==========================================================================
\* C12: when a fetch succeeds in schedule mode, every session of the grouped
\* output is one that the filter pipeline, run over the index rebuilt from the new
\* list with the active filter state, lets pass.
C12_FetchedPassesFilters ==
  [][(lastOp' = "fetchSucceeded" /\ view' = "schedule") =>
       LET passed == filterSessions(FilterClosure(createSearchIndex(sessions'), searchTerm',
                                                  selectedDay', selectedTrack',
                                                  selectedRoom'))
       IN  \A d \in DOMAIN groupedSessions'.grouped :
             \A s \in Range(groupedSessions'.grouped[d]) : s.id \in Ids(passed)]_vars

\* ==========================================================================
\* Properties of the search index (SpecFetch)
\* ==========================================================================
\* C13: the index has the length and the order of the held list; each element
\* keeps the fields of its session and adds searchText, which is the lower-cased
\* title, description, track (empty when absent) and speaker names (empty when
\* none) joined by single spaces, and so contains the lower-cased title.
C13_IndexBuilt ==
  /\ Len(searchIndex) = Len(sessions)
  /\ \A i \in 1..Len(sessions) :
       LET s == sessions[i]
           x == searchIndex[i]
           track == IF "track" \in Range(s.keys) THEN s.track ELSE EmptyString
           names == IF "speakers" \in Range(s.keys)
                    THEN [j \in 1..Len(s.speakers) |-> toLowerCase(s.speakers[j].name)]
                    ELSE <<>>
       IN  /\ \A k \in Range(s.keys) : k \in Range(x.keys) /\ x[k] = s[k]
           /\ Range(x.keys) = Range(s.keys) \cup {"searchText"}
           /\ x.searchText = join(<<toLowerCase(s.title), toLowerCase(s.description),
                                    toLowerCase(track), join(names, Space)>>, Space)
           /\ includes(x.searchText, toLowerCase(s.title))

\* the index of a list with an upper-case title and a session without track and speakers
C13_Witness ==
  /\ lastOp = "fetchSucceeded"
  /\ sessions = <<SessA, SessB>>
  /\ searchIndex[1].searchText = <<"a", " ", "x", " ", "c", " ", "b">>
  /\ searchIndex[2].searchText = <<"b", " ", "x", " ", " ">>

\* ==========================================================================
\* Properties of quiescence (SpecSettle)
\* ==========================================================================
Settled ==
  /\ timers = {}
  /\ searchIndex = createSearchIndex(sessions)
  /\ filteredSessions = filterSessions(CurrentClosure)

\* C17: if from some point on no fetch is in flight, then from some point on no
\* filter run is pending, the search index is the index built from the held list
\* and the filtered list is the result of the filter pipeline on that index with
\* the current filter state.
C17_Settles == <>[](fetches = <<>>) => <>[]Settled

\* after a refresh under a search term the run has executed and dropped sessions
C17_Witness ==
  /\ Settled
  /\ lastOp = "filterRun"
  /\ fetches = <<>>
  /\ updateStats # NoStats
  /\ searchTerm = <<"A">>
  /\ filteredSessions # <<>>
  /\ Len(filteredSessions) < Len(sessions)

\* ==========================================================================
\* Properties of the held list and of the fetch flags (SpecFetch)
\* ==========================================================================
\* C14: the held list is the empty list or the whole item list of one response,
\* never a mixture of two lists; it changes only when a fetch succeeds, to the
\* list of that response.
C14_HeldListWhole ==
  /\ [](sessions = <<>> \/ sessions \in Payloads)
  /\ [][sessions' # sessions =>
          /\ lastOp' = "fetchSucceeded"
          /\ sessions' \in Payloads
          /\ Len(fetches') = Len(fetches) - 1]_vars

\* a refresh replaced a non-empty list while another fetch was still in flight
C14_Witness ==
  /\ lastOp = "fetchSucceeded"
  /\ sessions = <<SessAk, SessB2, SessC>>
  /\ updateStats.modified = 2
  /\ fetches # <<>>

\* C18: when isLoading and isRefreshing are both false no fetch is in flight, so
\* the Refresh button, disabled while isRefreshing, is enabled only when no
\* refresh is in flight.
C18_FlagsTrackFetches ==
  /\ (~isLoading /\ ~isRefreshing) => fetches = <<>>
  /\ ~isRefreshing => \A i \in 1..Len(fetches) : ~fetches[i].showRefreshing

\* ==========================================================================
\* Properties of bookmark persistence (SpecStorage)
\* ==========================================================================
\* C15: after a startup whose read met no item, an unparsable item or a throwing
\* storage the bookmark set is empty; a toggle while the storage throws leaves the
\* item as it is and toggles the bookmark set in memory all the same, and a toggle
\* while it works stores the new set; every displayed card can be toggled in
\* every state.
C15_PersistenceFailuresHarmless ==
  /\ []((lastOp = "mount" /\ storage.startup \in {"null", "garbage", "threw"})
          => bookmarkedSessions = <<>>)
  /\ [](\A s \in Displayed : ENABLED ToggleBookmark(s))
  /\ [][bookmarkedSessions' # bookmarkedSessions =>
          /\ \E s \in Displayed :
               /\ (s.id \in Range(bookmarkedSessions)) # (s.id \in Range(bookmarkedSessions'))
               /\ \A id \in SessionIds \ {s.id} :
                    (id \in Range(bookmarkedSessions)) = (id \in Range(bookmarkedSessions'))
          /\ storage.fails => storage' = storage
          /\ ~storage.fails => storage'.item = JsonItem(bookmarkedSessions')]_vars

\* two toggles in a row while the storage throws: both are in memory, the
\* unparsable item is still the stored one
C15_Witness ==
  /\ lastOp = "toggleBookmark"
  /\ storage.fails
  /\ storage.startup = "threw"
  /\ storage.item = GarbageItem
  /\ Len(bookmarkedSessions) = 2

\* ==========================================================================
\* Properties of the filter state and of the current-time marker (SpecView)
\* ==========================================================================
IsString(v) == v # Undefined

\* C16: every field of the filter state is a string: the search term, and day,
\* track and room, each "all" or a value; also after a click on the room of a
\* session that has no room.
C16_FilterStateStrings ==
  /\ IsString(searchTerm)
  /\ IsString(selectedDay)
  /\ IsString(selectedTrack)
  /\ IsString(selectedRoom)

\* C19: whenever the grouping reports a live session, so that the Current button
\* is shown, the card of some displayed session holds the current-time marker,
\* at whichever instant up to now that card was rendered; in schedule mode and in
\* bookmarks mode.
C19_MarkerWhenCurrentShown ==
  groupedSessions.hasCurrentSession =>
    \E s \in Displayed, t \in RenderInstants : NowMarker(s, t)

TypeOK ==
  /\ sessions \in Payloads
  /\ Len(fetches) <= 2
  /\ Cardinality(timers) <= 1

====
